---- MODULE Spec2Model ----
(***************************************************************************)
(* Model of Association_Rules.py: the support calculator, the brute-force  *)
(* frequent-itemset miner, the rule generator and the driver               *)
(* run_all_algorithms that calls them before the two mlxtend strategies.   *)
(*                                                                         *)
(* Items are the integers 1..NItems (Python compares them with <).  A      *)
(* transaction is a sequence of items as the caller wrote it: any order,   *)
(* repetitions allowed.  A Python float that is the quotient of two small  *)
(* integers is modelled by the reduced fraction <<num, den>>, den > 0.     *)
(* Within the bounds below every quotient the code forms, count/len and    *)
(* (a/n)/(b/n), is the double nearest to the exact fraction, so comparing  *)
(* the fractions exactly agrees with the float comparisons of the code.    *)
(* This stops with 5 transactions: (3/5)/(4/5) is 0.7499999999999999 in    *)
(* Python, which needs an input larger than the bounds reach.              *)
(*                                                                         *)
(* The state machine follows run_all_algorithms: prepare_transaction_df,   *)
(* the brute-force miner level by level, the rule generator, then the two  *)
(* mlxtend strategies, whose outcome is not determined by this code.  The  *)
(* thresholds are drawn where they are passed to the two functions.        *)
(***************************************************************************)
EXTENDS Integers, Sequences, FiniteSets, TLC

VARIABLES transactions, min_support, min_confidence, pc, transaction_df,
          items, frequent_itemsets, itemset_size, rules, invoked, caught,
          timers

vars == <<transactions, min_support, min_confidence, pc, transaction_df,
          items, frequent_itemsets, itemset_size, rules, invoked, caught,
          timers>>

(* ------------------------------ bounds --------------------------------- *)

\* Number of distinct item identifiers a caller may use.
NItems == 3

\* Size of the input: every transaction counts 1 plus its number of entries.
MaxInput == 5

Items == 1..NItems

(* ------------------------------ inputs --------------------------------- *)

\* All sequences over S of length exactly n.
SeqsOfLen(S, n) == [1..n -> S]

\* All transaction lists whose input size is at most s.
RECURSIVE TransactionLists(_)
TransactionLists(s) ==
    {<<>>} \cup
    UNION { UNION { { <<t>> \o rest : rest \in TransactionLists(s - 1 - l) }
                    : t \in SeqsOfLen(Items, l) }
            : l \in 0..(s - 1) }

\* Thresholds a caller may pass, as fractions: below 0, 0, inside (0,1], above 1.
SupportThresholds == {<<-1, 2>>, <<0, 1>>, <<1, 2>>, <<1, 1>>, <<3, 2>>}
ConfidenceThresholds == {<<0, 1>>, <<1, 2>>, <<1, 1>>}

(* ------------------------- float arithmetic ---------------------------- *)

Abs(n) == IF n < 0 THEN -n ELSE n

RECURSIVE GCD(_, _)
GCD(a, b) == IF b = 0 THEN a ELSE GCD(b, a % b)

\* The float n / d (d > 0) as a reduced fraction.
Frac(n, d) == LET g == GCD(Abs(n), d) IN <<n \div g, d \div g>>

\* x >= y on floats.
Geq(x, y) == x[1] * y[2] >= y[1] * x[2]

\* The outcome of a division by zero: Python raises ZeroDivisionError and
\* no float is produced.  No float has denominator 0.
ZeroDivisionError == <<0, 0>>

\* x / y on floats; ZeroDivisionError when y is 0.
Quotient(x, y) ==
    IF y[1] = 0 THEN ZeroDivisionError
    ELSE IF y[1] > 0 THEN Frac(x[1] * y[2], x[2] * y[1])
    ELSE Frac(-(x[1] * y[2]), -(x[2] * y[1]))

(* --------------------------- Python helpers ---------------------------- *)

\* set(seq)
ToSet(s) == {s[i] : i \in DOMAIN s}

Min(S) == CHOOSE x \in S : \A y \in S : x <= y

\* sorted(S) for a set of items
RECURSIVE Sorted(_)
Sorted(S) == IF S = {} THEN <<>> ELSE <<Min(S)>> \o Sorted(S \ {Min(S)})

\* itertools.combinations_with_replacement in place of combinations.
RECURSIVE CombinationsWithReplacement(_, _)
CombinationsWithReplacement(s, k) ==
    IF k = 0 THEN << <<>> >>
    ELSE IF s = <<>> THEN <<>>
    ELSE LET withHead == CombinationsWithReplacement(s, k - 1)
         IN [i \in 1..Len(withHead) |-> <<Head(s)>> \o withHead[i]]
            \o CombinationsWithReplacement(Tail(s), k)

\* combinations that never take the whole sequence.
RECURSIVE CombinationsProper(_, _)
CombinationsProper(s, k) ==
    IF k = 0 THEN << <<>> >>
    ELSE IF Len(s) <= k THEN <<>>
    ELSE LET withHead == CombinationsProper(Tail(s), k - 1)
         IN [i \in 1..Len(withHead) |-> <<Head(s)>> \o withHead[i]]
            \o CombinationsProper(Tail(s), k)

\* list(itertools.combinations(s, k)): the k-long subsequences of s, in
\* lexicographic order of the positions they take.
RECURSIVE Combinations(_, _)
Combinations(s, k) ==
    IF k = 0 THEN << <<>> >>
    ELSE IF Len(s) < k THEN <<>>
    ELSE LET withHead == Combinations(Tail(s), k - 1)
         IN [i \in 1..Len(withHead) |-> <<Head(s)>> \o withHead[i]]
            \o Combinations(Tail(s), k)

(* ------------------------- Support Calculator -------------------------- *)

\* A support that counts the transactions sharing some item with the itemset.
calculate_support_any(T, itemset) ==
    IF Len(T) = 0 THEN ZeroDivisionError
    ELSE Frac(Cardinality({i \in 1..Len(T) : ToSet(itemset) \cap ToSet(T[i]) # {}}),
              Len(T))

\* calculate_support: the number of transactions that contain every item of
\* the itemset, divided by len(transactions).
calculate_support(T, itemset) ==
    IF Len(T) = 0 THEN ZeroDivisionError
    ELSE Frac(Cardinality({i \in 1..Len(T) : ToSet(itemset) \subseteq ToSet(T[i])}),
              Len(T))

(* -------------------------- Brute-Force Miner -------------------------- *)

\* The distinct items in order of first appearance, not sorted.
RECURSIVE first_seen(_)
first_seen(flat) ==
    IF flat = <<>> THEN <<>>
    ELSE LET rest == first_seen(SelectSeq(Tail(flat), LAMBDA x : x # Head(flat)))
         IN <<Head(flat)>> \o rest

RECURSIVE flatten(_)
flatten(T) == IF T = <<>> THEN <<>> ELSE Head(T) \o flatten(Tail(T))

all_items_unsorted(T) == first_seen(flatten(T))

\* sorted(set(item for transaction in transactions for item in transaction))
all_items(T) == Sorted(UNION {ToSet(T[i]) : i \in DOMAIN T})

\* The level filter with support > min_support.
current_frequent_itemsets_strict(T, candidates, ms) ==
    LET scored == [i \in 1..Len(candidates) |->
                     <<candidates[i], calculate_support(T, candidates[i])>>]
    IN SelectSeq(scored, LAMBDA r : ~Geq(ms, r[2]))

\* The for loop of one level: every candidate paired with its support, those
\* with support >= min_support kept, in candidate order.
current_frequent_itemsets(T, candidates, ms) ==
    LET scored == [i \in 1..Len(candidates) |->
                     <<candidates[i], calculate_support(T, candidates[i])>>]
    IN SelectSeq(scored, LAMBDA r : Geq(r[2], ms))

\* A level raises when calculate_support is called on an empty transaction list.
level_raises(T, candidates) ==
    \E i \in 1..Len(candidates) : calculate_support(T, candidates[i]) = ZeroDivisionError

\* The while loop from level k on, with the records gathered so far.  The
\* result is <<raised, frequent_itemsets, itemset_size at exit>>.
RECURSIVE brute_force_loop(_, _, _, _, _)
brute_force_loop(T, its, k, acc, ms) ==
    LET candidates == Combinations(its, k)
    IN IF level_raises(T, candidates) THEN <<TRUE, <<>>, k>>
       ELSE LET current == current_frequent_itemsets(T, candidates, ms)
            IN IF current = <<>> THEN <<FALSE, acc, k>>
               ELSE brute_force_loop(T, its, k + 1, acc \o current, ms)

\* brute_force_frequent_itemsets as a function of its arguments.
brute_force_frequent_itemsets(T, ms) == brute_force_loop(T, all_items(T), 1, <<>>, ms)

(* ---------------------------- Rule Generator --------------------------- *)

\* A consequent that keeps the whole itemset.
consequent_whole(itemset, antecedent) == itemset

\* tuple(item for item in itemset if item not in antecedent)
consequent_of(itemset, antecedent) ==
    SelectSeq(itemset, LAMBDA item : item \notin ToSet(antecedent))

\* The antecedents of one itemset in loop order: sizes 1..i, and within a size
\* the order of itertools.combinations.
RECURSIVE antecedents(_, _)
antecedents(itemset, i) ==
    IF i = 0 THEN <<>>
    ELSE antecedents(itemset, i - 1) \o Combinations(itemset, i)

\* Every (itemset, support, antecedent) the three nested loops visit, in order.
RECURSIVE rule_candidates(_)
rule_candidates(fis) ==
    IF fis = <<>> THEN <<>>
    ELSE LET itemset == Head(fis)[1]
             support == Head(fis)[2]
             ants    == IF Len(itemset) > 1
                        THEN antecedents(itemset, Len(itemset) - 1)
                        ELSE <<>>
         IN [i \in 1..Len(ants) |->
               [itemset |-> itemset, support |-> support, antecedent |-> ants[i]]]
            \o rule_candidates(Tail(fis))

\* The loop body over the remaining candidates; acc is the list rules.
\* The result is [raised, rules]: a ZeroDivisionError leaves the function
\* through the exception and the list built so far is lost.
RECURSIVE rules_loop(_, _, _, _)
rules_loop(cands, T, mc, acc) ==
    IF cands = <<>> THEN [raised |-> FALSE, rules |-> acc]
    ELSE LET c == Head(cands)
             antecedent_support == calculate_support(T, c.antecedent)
             confidence == IF antecedent_support = ZeroDivisionError
                           THEN ZeroDivisionError
                           ELSE Quotient(c.support, antecedent_support)
         IN IF confidence = ZeroDivisionError
            THEN [raised |-> TRUE, rules |-> <<>>]
            ELSE rules_loop(Tail(cands), T, mc,
                            IF Geq(confidence, mc)
                            THEN Append(acc, <<c.antecedent,
                                               consequent_of(c.itemset, c.antecedent),
                                               confidence, c.support>>)
                            ELSE acc)

generate_association_rules(fis, T, mc) == rules_loop(rule_candidates(fis), T, mc, <<>>)

(* ------------------------------- Driver -------------------------------- *)

\* prepare_transaction_df: one row per transaction, one column per item of the
\* sorted universe, TRUE where the item is in the transaction.
prepare_transaction_df(T) ==
    LET cols == all_items(T)
    IN [i \in 1..Len(T) |-> [j \in 1..Len(cols) |-> cols[j] \in ToSet(T[i])]]

\* What a call of an mlxtend strategy (and the rule generation and printing in
\* the same try block) can do: find itemsets, find none, or raise.
ExternalOutcomes == {"ok", "empty", "raise"}

\* An argument the caller has not passed yet (the functions are called one
\* after the other, each with its own arguments).
NotPassed == <<>>

Init ==
    /\ transactions \in TransactionLists(MaxInput)
    /\ min_support = NotPassed
    /\ min_confidence = NotPassed
    /\ pc = "prepare"
    /\ transaction_df = <<>>
    /\ items = <<>>
    /\ frequent_itemsets = <<>>
    /\ itemset_size = 0
    /\ rules = <<>>
    /\ invoked = <<>>
    /\ caught = {}
    /\ timers = {}

\* run_all_algorithms, line 136.
PrepareTransactionDf ==
    /\ pc = "prepare"
    /\ transaction_df' = prepare_transaction_df(transactions)
    /\ pc' = "brute_start"
    /\ UNCHANGED <<transactions, min_support, min_confidence, items,
                   frequent_itemsets, itemset_size, rules, invoked, caught, timers>>

\* The call of brute_force_frequent_itemsets with its threshold, up to the
\* loop (lines 141, 58-61).
BruteForceStart ==
    /\ pc = "brute_start"
    /\ min_support' \in SupportThresholds
    /\ invoked' = Append(invoked, "brute_force")
    /\ items' = all_items(transactions)
    /\ frequent_itemsets' = <<>>
    /\ itemset_size' = 1
    /\ pc' = "brute_loop"
    /\ UNCHANGED <<transactions, min_confidence, transaction_df,
                   rules, caught, timers>>

\* One iteration of the while loop (lines 63-76); the break returns the list
\* to line 141.
BruteForceLevel ==
    /\ pc = "brute_loop"
    /\ LET candidate_itemsets == Combinations(items, itemset_size)
           current == current_frequent_itemsets(transactions, candidate_itemsets,
                                                min_support)
       IN IF level_raises(transactions, candidate_itemsets)
          THEN /\ pc' = "mine_raised"
               /\ UNCHANGED <<frequent_itemsets, itemset_size>>
          ELSE IF current = <<>>
          THEN /\ pc' = "rules"
               /\ UNCHANGED <<frequent_itemsets, itemset_size>>
          ELSE /\ frequent_itemsets' = frequent_itemsets \o current
               /\ itemset_size' = itemset_size + 1
               /\ pc' = "brute_loop"
    /\ UNCHANGED <<transactions, min_support, min_confidence, transaction_df,
                   items, rules, invoked, caught, timers>>

\* Lines 142-145: the call of generate_association_rules with its threshold,
\* outside any try.
GenerateRules ==
    /\ pc = "rules"
    /\ \E mc \in ConfidenceThresholds :
          LET result == generate_association_rules(frequent_itemsets, transactions, mc)
          IN /\ min_confidence' = mc
             /\ IF result.raised
                THEN /\ pc' = "rules_raised"
                     /\ UNCHANGED <<rules, timers>>
                ELSE /\ rules' = result.rules
                     /\ timers' = timers \cup {"brute_time"}
                     /\ pc' = "apriori"
    /\ UNCHANGED <<transactions, min_support, transaction_df,
                   items, frequent_itemsets, itemset_size, invoked, caught>>

\* Lines 148-162: apriori inside try/except; apriori_time is set on both paths.
Apriori ==
    /\ pc = "apriori"
    /\ \E outcome \in ExternalOutcomes :
          caught' = IF outcome = "raise" THEN caught \cup {"apriori"} ELSE caught
    /\ invoked' = Append(invoked, "apriori")
    /\ timers' = timers \cup {"apriori_time"}
    /\ pc' = "fpgrowth"
    /\ UNCHANGED <<transactions, min_support, min_confidence, transaction_df,
                   items, frequent_itemsets, itemset_size, rules>>

\* Lines 165-179: fpgrowth inside try/except; fpgrowth_time is set on both paths.
FPGrowth ==
    /\ pc = "fpgrowth"
    /\ \E outcome \in ExternalOutcomes :
          caught' = IF outcome = "raise" THEN caught \cup {"fpgrowth"} ELSE caught
    /\ invoked' = Append(invoked, "fpgrowth")
    /\ timers' = timers \cup {"fpgrowth_time"}
    /\ pc' = "return"
    /\ UNCHANGED <<transactions, min_support, min_confidence, transaction_df,
                   items, frequent_itemsets, itemset_size, rules>>

\* Line 181: the three times are returned.
Return ==
    /\ pc = "return"
    /\ {"brute_time", "apriori_time", "fpgrowth_time"} \subseteq timers
    /\ pc' = "done"
    /\ UNCHANGED <<transactions, min_support, min_confidence, transaction_df,
                   items, frequent_itemsets, itemset_size, rules, invoked,
                   caught, timers>>

Next ==
    \/ PrepareTransactionDf
    \/ BruteForceStart
    \/ BruteForceLevel
    \/ GenerateRules
    \/ Apriori
    \/ FPGrowth
    \/ Return

Spec == Init /\ [][Next]_vars

(* ------------------- what the claims are stated over ------------------- *)

\* brute_force_frequent_itemsets has just returned its list to line 141; no
\* later step assigns frequent_itemsets or itemset_size.
Mined == pc = "rules"

\* generate_association_rules has just returned its list to line 142; no
\* later step assigns rules.
RulesReturned == pc = "apriori"

\* The call of generate_association_rules is over, by return or by exception.
RulesCallOver == RulesReturned \/ pc = "rules_raised"

\* run_all_algorithms is over, by return or by exception.
RunOver == pc \in {"done", "mine_raised", "rules_raised"}

NumTransactions == Len(transactions)

\* The distinct items of the transaction set.
Universe == {x \in Items : \E i \in DOMAIN transactions :
                              \E j \in DOMAIN transactions[i] : transactions[i][j] = x}

\* The number of transactions that contain every item of the set S.
SupportCount(S) ==
    Cardinality({i \in DOMAIN transactions :
                   \A x \in S : \E j \in DOMAIN transactions[i] : transactions[i][j] = x})

\* support(S) >= min_support, over the integers.
IsFrequent(S) == SupportCount(S) * min_support[2] >= min_support[1] * NumTransactions

\* The float f is exactly count / NumTransactions.
IsSupportOf(f, S) == f[2] > 0 /\ f[1] * NumTransactions = SupportCount(S) * f[2]

\* The positions of the returned list that hold the itemset S.
RecordsOf(S) == {i \in DOMAIN frequent_itemsets : ToSet(frequent_itemsets[i][1]) = S}

NonEmptySubsets(S) == SUBSET S \ {{}}

RECURSIVE Pow2(_)
Pow2(n) == IF n = 0 THEN 1 ELSE 2 * Pow2(n - 1)

\* Strict lexicographic order on two sequences of the same length.
LexLess(a, b) ==
    \E k \in DOMAIN a : a[k] < b[k] /\ \A j \in 1..(k - 1) : a[j] = b[j]

StrictlyIncreasing(a) == \A i \in 1..(Len(a) - 1) : a[i] < a[i + 1]

\* Every way of listing the items of each transaction in another order.
Reordered(t) == {[i \in DOMAIN t |-> t[p[i]]] : p \in Permutations(DOMAIN t)}
RECURSIVE Reorderings(_)
Reorderings(T) ==
    IF T = <<>> THEN {<<>>}
    ELSE {<<t>> \o rest : t \in Reordered(Head(T)), rest \in Reorderings(Tail(T))}

(* ------------------------------- claims -------------------------------- *)

\* C1: for a non-empty transaction set and min_support > 0, the list returned
\* by brute_force_frequent_itemsets holds exactly the non-empty itemsets over
\* the distinct items whose support is >= min_support, each once and with its
\* exact support; for min_support > 1 the list is empty.
C1_ExactlyTheFrequentItemsets ==
    (Mined /\ NumTransactions > 0 /\ min_support[1] > 0) =>
        /\ \A S \in NonEmptySubsets(Universe) :
              Cardinality(RecordsOf(S)) = IF IsFrequent(S) THEN 1 ELSE 0
        /\ \A i \in DOMAIN frequent_itemsets :
              LET itemset == frequent_itemsets[i][1]
              IN /\ ToSet(itemset) \in NonEmptySubsets(Universe)
                 /\ Len(itemset) = Cardinality(ToSet(itemset))
                 /\ IsSupportOf(frequent_itemsets[i][2], ToSet(itemset))
        /\ (min_support[1] > min_support[2] => frequent_itemsets = <<>>)

\* C1 witness: the loop stopped at a level that still had candidates, after
\* keeping itemsets of size 1 and 2 and dropping a candidate of size 1 or 2.
C1_Witness ==
    /\ Mined /\ NumTransactions > 0 /\ min_support[1] > 0
    /\ itemset_size <= Len(items)
    /\ \E i \in DOMAIN frequent_itemsets : Len(frequent_itemsets[i][1]) = 2
    /\ Len(frequent_itemsets) < Pow2(Len(items)) - 2

\* C2: with min_support = 0 and a non-empty transaction set of n distinct
\* items, the returned list holds each of the 2^n - 1 non-empty subsets of the
\* universe exactly once with its true support, and the loop is left at level
\* n + 1.
C2_ZeroSupportEnumeratesPowerset ==
    (Mined /\ NumTransactions > 0 /\ min_support[1] = 0) =>
        /\ Len(frequent_itemsets) = Pow2(Cardinality(Universe)) - 1
        /\ \A S \in NonEmptySubsets(Universe) :
              /\ Cardinality(RecordsOf(S)) = 1
              /\ \A i \in RecordsOf(S) : IsSupportOf(frequent_itemsets[i][2], S)
        /\ itemset_size = Cardinality(Universe) + 1

\* C2 witness: three distinct items, seven records, one of them of support 0.
C2_Witness ==
    /\ Mined /\ NumTransactions > 0 /\ min_support[1] = 0
    /\ Cardinality(Universe) = 3
    /\ \E i \in DOMAIN frequent_itemsets : frequent_itemsets[i][2] = <<0, 1>>

\* C3: every returned rule has a non-empty antecedent and consequent that are
\* disjoint, their union is the itemset of a record of the mined list, the
\* rule's support is that record's support, and its confidence is that
\* support divided by the support of the antecedent over all transactions.
C3_RulesWellFormed ==
    RulesReturned =>
        \A r \in DOMAIN rules :
            LET antecedent == ToSet(rules[r][1])
                consequent == ToSet(rules[r][2])
                confidence == rules[r][3]
                support    == rules[r][4]
            IN /\ antecedent # {} /\ consequent # {}
               /\ antecedent \cap consequent = {}
               /\ \E i \in RecordsOf(antecedent \cup consequent) :
                     frequent_itemsets[i][2] = support
               /\ SupportCount(antecedent) > 0
               /\ confidence[2] > 0
               /\ confidence[1] * support[2] * SupportCount(antecedent)
                     = confidence[2] * support[1] * NumTransactions

\* C3 witness: rules were returned from an itemset whose two antecedents have
\* different supports: one rule of confidence 1/2 and one of confidence 1.
C3_Witness ==
    /\ RulesReturned
    /\ \E r \in DOMAIN rules : rules[r][3] = <<1, 2>>
    /\ \E r \in DOMAIN rules : rules[r][3] = <<1, 1>> /\ rules[r][4] = <<1, 2>>

\* C5: the loop halts for every threshold.  The size level never passes
\* n + 1, n the number of distinct items; an iteration that stays in the loop
\* raises the level by one and is taken at a level of at most n, so the
\* iteration at level n + 1 leaves the loop; no kept itemset has more than n
\* items.
C5_LevelBounded ==
    /\ itemset_size <= Cardinality(Universe) + 1
    /\ \A i \in DOMAIN frequent_itemsets :
          Len(frequent_itemsets[i][1]) <= Cardinality(Universe)

C5_LevelAdvances ==
    (pc = "brute_loop" /\ pc' = "brute_loop") =>
        /\ itemset_size' = itemset_size + 1
        /\ itemset_size <= Cardinality(Universe)

C5_LoopHalts == []C5_LevelBounded /\ [][C5_LevelAdvances]_vars

\* C5 witness: with a negative threshold, which keeps every candidate, the
\* loop ran through every level and was left at level n + 1, n = 3.
C5_Witness ==
    /\ Mined /\ min_support[1] < 0
    /\ Cardinality(Universe) = 3
    /\ itemset_size = 4

\* C9: for a non-empty transaction set (seen when the miner has called
\* calculate_support at every level), the support of an itemset is never
\* below the support of a superset; the empty itemset has support 1, so
\* every support lies in [0, 1].
C9_SupportAntiMonotone ==
    (Mined /\ NumTransactions > 0) =>
        LET support == [S \in SUBSET Items |-> calculate_support(transactions, Sorted(S))]
        IN /\ calculate_support(transactions, <<>>) = <<1, 1>>
           /\ \A B \in SUBSET Items :
                 /\ IsSupportOf(support[B], B)
                 /\ Geq(support[B], <<0, 1>>) /\ Geq(<<1, 1>>, support[B])
                 /\ \A A \in SUBSET B : Geq(support[A], support[B])

\* C9 witness: a transaction repeats an item, and the mined list holds an
\* itemset with a smaller support than one of its subsets.
C9_Witness ==
    /\ Mined
    /\ \E i \in DOMAIN transactions :
          Len(transactions[i]) > Cardinality(ToSet(transactions[i]))
    /\ \E i, j \in DOMAIN frequent_itemsets :
          /\ ToSet(frequent_itemsets[i][1]) \subseteq ToSet(frequent_itemsets[j][1])
          /\ ~Geq(frequent_itemsets[j][2], frequent_itemsets[i][2])

\* C10: the returned list is in canonical order (sizes never decrease, lists
\* of one size are in lexicographic order, every itemset is strictly
\* increasing) and a run on the same transactions with the items of each
\* transaction listed in any other order returns the identical list.
C10_CanonicalAndDeterministic ==
    Mined =>
        /\ \A i \in DOMAIN frequent_itemsets : StrictlyIncreasing(frequent_itemsets[i][1])
        /\ \A i, j \in DOMAIN frequent_itemsets :
              i < j =>
                 LET a == frequent_itemsets[i][1]
                     b == frequent_itemsets[j][1]
                 IN Len(a) < Len(b) \/ (Len(a) = Len(b) /\ LexLess(a, b))
        /\ \A T2 \in Reorderings(transactions) :
              brute_force_frequent_itemsets(T2, min_support)
                 = <<FALSE, frequent_itemsets, itemset_size>>

\* C10 witness: a transaction lists its items in decreasing order and the
\* mined list has records of two sizes.
C10_Witness ==
    /\ Mined
    /\ \E i \in DOMAIN transactions :
          Len(transactions[i]) >= 2 /\ transactions[i][1] > transactions[i][2]
    /\ \E i, j \in DOMAIN frequent_itemsets :
          Len(frequent_itemsets[i][1]) < Len(frequent_itemsets[j][1])

\* C4 (as claimed): once the call of generate_association_rules is over, a
\* candidate (a record of more than one item and a non-empty proper subset of
\* it as antecedent) whose confidence is defined is in the returned list
\* exactly once if its confidence is >= min_confidence, and not at all
\* otherwise.  After an exception no list is returned and rules is empty.
C4_CandidateKeptIffConfident ==
    RulesCallOver =>
        \A i \in DOMAIN frequent_itemsets :
            LET itemset == ToSet(frequent_itemsets[i][1])
                support == frequent_itemsets[i][2]
            IN \A A \in NonEmptySubsets(itemset) \ {itemset} :
                  SupportCount(A) > 0 =>
                     LET kept == {r \in DOMAIN rules :
                                     /\ ToSet(rules[r][1]) = A
                                     /\ ToSet(rules[r][2]) = itemset \ A}
                         confident ==
                             support[1] * NumTransactions * min_confidence[2]
                                >= min_confidence[1] * SupportCount(A) * support[2]
                     IN Cardinality(kept) = IF confident THEN 1 ELSE 0

\* C6 (as claimed): when some candidate antecedent has support 0, the call of
\* generate_association_rules still returns, and no returned rule has that
\* antecedent.
C6_ZeroAntecedentSkipped ==
    (/\ RulesCallOver
     /\ \E i \in DOMAIN frequent_itemsets :
           \E A \in NonEmptySubsets(ToSet(frequent_itemsets[i][1])) :
              A # ToSet(frequent_itemsets[i][1]) /\ SupportCount(A) = 0)
    => /\ pc # "rules_raised"
       /\ \A r \in DOMAIN rules : SupportCount(ToSet(rules[r][1])) > 0

\* C7 (as claimed): brute_force_frequent_itemsets on an empty transaction list
\* ends in an error and returns no list.
C7_EmptyInputRaises ==
    (NumTransactions = 0 /\ pc \notin {"prepare", "brute_start", "brute_loop"})
    => pc = "mine_raised"

\* C8 (as claimed): however run_all_algorithms ends, the three strategies
\* were invoked in the order brute-force, Apriori, FP-Growth and the three
\* execution times are returned.
C8_EveryStrategyInvoked ==
    RunOver =>
        /\ pc = "done"
        /\ invoked = <<"brute_force", "apriori", "fpgrowth">>
        /\ timers = {"brute_time", "apriori_time", "fpgrowth_time"}

====
